---- MODULE Spec2Model ----
(***************************************************************************)
(* Model of convert_oct_data (src/main.cpp): the batch converter of OCT    *)
(* scans.  Strings and paths are sequences of one-character strings, so    *)
(* that stem(), extension(), concatenation and the decimal form of an int  *)
(* are computed and not assumed.                                           *)
(*                                                                         *)
(* Two specifications:                                                     *)
(*   Spec      a run of main(): option parsing, the loop over octPaths,    *)
(*             the directory walk and convertFile on a small filesystem;   *)
(*   SpecPure  createFilename and anonymisingOct applied to scan records   *)
(*             drawn from a bounded set.                                   *)
(***************************************************************************)
EXTENDS Integers, Sequences, FiniteSets, TLC

VARIABLES
    \* ---- a run of main() ----
    pc,          \* "start" | "main" | "walk" | "done"
    opt,         \* Options (outputFormat, addOldFilename, anonymising, outputPath)
    argv,        \* the parsed command line: octPaths and the outputformat string
    idx,         \* index of the next element of octPaths in main's loop
    fs,          \* the regular files of the filesystem: path -> content
    visited,     \* entries the recursive_directory_iterator has yielded in this walk
    atStart,     \* entries that existed under the root when the walk began
    calls,       \* path -> number of convertFile calls while handling octPaths[idx]
    last,        \* what the most recent convertFile call did
    hist,        \* history flags: conflict / write failure / read failure seen so far
    exitCode,    \* main's return value once pc = "done"
    \* ---- the pure functions ----
    pOct,        \* the scan record (mutated in place by anonymisingOct)
    pOrig,       \* the record as drawn
    pOnce,       \* the record after the first anonymisingOct
    pApplied,    \* number of anonymisingOct applications so far
    pSrc,        \* sourceFilename
    pAdd,        \* opt.addOldFilename
    pNamed,      \* whether createFilename has been applied
    pName        \* its result

mvars == <<pc, opt, argv, idx, fs, visited, atStart, calls, last, hist, exitCode>>
pvars == <<pOct, pOrig, pOnce, pApplied, pSrc, pAdd, pNamed, pName>>
vars  == <<mvars, pvars>>

(***************************************************************************)
(* Bounds                                                                  *)
(***************************************************************************)
MaxPatients == 2    \* patients in a scan record
MaxStudies  == 2    \* studies of a patient
MaxSeries   == 2    \* series of a study
MaxApply    == 2    \* applications of anonymisingOct to one record
MaxPaths    == 2    \* elements of octPaths on the command line

(***************************************************************************)
(* Strings                                                                 *)
(***************************************************************************)
EmptyStr == << >>

Digits == <<"0", "1", "2", "3", "4", "5", "6", "7", "8", "9">>

RECURSIVE NatToStr(_)
NatToStr(n) ==
    IF n < 10 THEN <<Digits[n + 1]>>
    ELSE NatToStr(n \div 10) \o <<Digits[(n % 10) + 1]>>

\* boost::lexical_cast<std::string>(int): the decimal form, '-' for negatives
lexical_cast(n) == IF n < 0 THEN <<"-">> \o NatToStr(-n) ELSE NatToStr(n)

\* index of the last occurrence of character c in s, 0 when there is none
LastIndexOf(s, c) ==
    LET hits == {i \in 1..Len(s) : s[i] = c}
    IN  IF hits = {} THEN 0 ELSE CHOOSE i \in hits : \A j \in hits : j <= i

(***************************************************************************)
(* boost::filesystem::path (version 3, POSIX) as used by the program       *)
(***************************************************************************)
Dot    == <<".">>
DotDot == <<".", ".">>

\* path::filename(): the last element; "." for a path ending in a separator
Filename(p) ==
    IF p = EmptyStr THEN EmptyStr
    ELSE IF p[Len(p)] = "/" THEN Dot
    ELSE SubSeq(p, LastIndexOf(p, "/") + 1, Len(p))

\* path::extension(): from the last dot of the filename; none for "." and ".."
Extension(p) ==
    LET name == Filename(p)
        pos  == LastIndexOf(name, ".")
    IN  IF name = Dot \/ name = DotDot \/ pos = 0 THEN EmptyStr
        ELSE SubSeq(name, pos, Len(name))

\* a plausible slip: the whole filename, extension included
StemKeepsExtension(p) == Filename(p)

\* path::stem(): the filename without its extension
Stem(p) ==
    LET name == Filename(p)
        pos  == LastIndexOf(name, ".")
    IN  IF name = Dot \/ name = DotDot \/ pos = 0 THEN name
        ELSE SubSeq(name, 1, pos - 1)

\* path::branch_path() (parent_path): everything before the last separator
BranchPath(p) ==
    LET pos == LastIndexOf(p, "/")
    IN  IF pos = 0 THEN EmptyStr
        ELSE IF pos = 1 THEN <<"/">>
        ELSE SubSeq(p, 1, pos - 1)

\* operator/ : append with a separator unless one side is empty or p ends in one
PathAppend(p, q) ==
    IF q = EmptyStr THEN p
    ELSE IF p = EmptyStr THEN q
    ELSE IF p[Len(p)] = "/" \/ q[1] = "/" THEN p \o q
    ELSE p \o <<"/">> \o q

(***************************************************************************)
(* OutputFormat and getExtention                                           *)
(***************************************************************************)
OutputFormat == {"xoct", "octbin", "img"}

getExtention(format) ==
    CASE format = "xoct"   -> <<".", "x", "o", "c", "t">>
      [] format = "octbin" -> <<".", "o", "c", "t", "b", "i", "n">>
      [] format = "img"    -> <<".", "i", "m", "g">>
      [] OTHER             -> EmptyStr

(***************************************************************************)
(* OctData records: OCT -> Patient -> Study -> Series.  A substructure map *)
(* is the sequence of its (first, second) pairs in iteration order; a null *)
(* pointer is NULL.                                                        *)
(***************************************************************************)
NULL == [null |-> TRUE]

EmptyDate == [empty |-> TRUE, year |-> 0, month |-> 0, day |-> 0]
MkDate(y, m, d) == [empty |-> FALSE, year |-> y, month |-> m, day |-> d]

\* Date::isEmpty, Date::setDay, Date::setMonth
isEmpty(d)     == d.empty
setDay(d, v)   == [d EXCEPT !.day = v, !.empty = FALSE]
setMonth(d, v) == [d EXCEPT !.month = v, !.empty = FALSE]

\* SubStructureTemplate::size()
Size(m) == Len(m)

\* a plausible slip: the last entry of the map instead of the first
BeginIsLast(m) == m[Len(m)]

\* SubStructureTemplate::begin(), dereferenced: the first pair in iteration order
Begin(m) == m[1]

Unknown == <<"u", "n", "k", "n", "o", "w", "n">>
Under   == <<"_">>
(***************************************************************************)
(* createFilename                                                          *)
(***************************************************************************)
createFilename(octdata, sourceFilename, o) ==
    LET oldFileName == Stem(sourceFilename)
    IN  IF Size(octdata) = 0 THEN oldFileName
        ELSE
        LET p == Begin(octdata).second
        IN  IF p = NULL \/ Size(p.studies) = 0 THEN oldFileName
            ELSE
            LET study    == Begin(p.studies)
                s        == study.second
                studyId  == study.first
                patName  == IF p.id = EmptyStr THEN Unknown ELSE p.id
            IN  IF s = NULL \/ Size(s.series) = 0 THEN patName
                ELSE
                LET seriesId == Begin(s.series).first
                    withIds  == patName \o Under \o lexical_cast(studyId)
                                        \o Under \o lexical_cast(seriesId)
                IN  IF o.addOldFilename
                    THEN withIds \o Under \o Stem(sourceFilename)
                    ELSE withIds

(***************************************************************************)
(* anonymisingOct                                                          *)
(***************************************************************************)
\* a plausible slip: the month of the birthdate is left as it was
anonymisingKeepsMonth(pat) ==
    LET d == pat.birthdate
    IN  [pat EXCEPT !.surname   = EmptyStr,
                    !.forename  = EmptyStr,
                    !.title     = EmptyStr,
                    !.birthdate = IF ~isEmpty(d) THEN setDay(d, 1) ELSE d]

\* the body of the loop of anonymisingOct, for a non-null patient
anonymisingPatient(pat) ==
    LET d == pat.birthdate
    IN  [pat EXCEPT !.surname   = EmptyStr,
                    !.forename  = EmptyStr,
                    !.title     = EmptyStr,
                    !.birthdate = IF ~isEmpty(d) THEN setMonth(setDay(d, 1), 1)
                                  ELSE d]

anonymisingOct(octData) ==
    [i \in 1..Len(octData) |->
        LET pat == octData[i].second
        IN  IF pat # NULL
            THEN [octData[i] EXCEPT !.second = anonymisingPatient(pat)]
            ELSE octData[i]]
(***************************************************************************)
(* The scan records the pure functions are applied to.  Map keys ascend in *)
(* iteration order.  The first entry of every level ranges over the whole  *)
(* pool of that level, later entries over a smaller one.                   *)
(***************************************************************************)
SeriesKey(i) == 19 * i - 31      \* -12, 7, 26, ...
StudyKey(i)  == 10 * i - 7       \*   3, 13, 23, ...

\* the pairs (n, k): a run of n keys starting at the k-th key
Runs(max) == {r \in (0..max) \X (1..(max + 1)) : r[1] + r[2] - 1 <= max}

\* series maps; the Series a pair points to is never read by the program
SeriesLists ==
    {[i \in 1..r[1] |-> [first |-> SeriesKey(r[2] + i - 1)]] : r \in Runs(MaxSeries)}

FullSeries == [i \in 1..MaxSeries |-> [first |-> SeriesKey(i)]]

StudyPtrs      == {NULL} \cup {[series |-> sl] : sl \in SeriesLists}
LaterStudyPtrs == {NULL, [series |-> FullSeries]}

StudyLists ==
    UNION {{[i \in 1..r[1] |->
                [first  |-> StudyKey(r[2] + i - 1),
                 second |-> IF i = 1 THEN f ELSE g[i]]]
            : f \in StudyPtrs, g \in [2..r[1] -> LaterStudyPtrs]}
           : r \in Runs(MaxStudies)}

P42  == <<"P", "4", "2">>
Doe  == <<"D", "o", "e">>
John == <<"J">>
Dr   == <<"D", "r">>

IdStrings == {EmptyStr, P42}

Demographics ==
    {[surname |-> Doe, forename |-> John, title |-> Dr, birthdate |-> MkDate(1980, 5, 17)],
     [surname |-> Doe, forename |-> EmptyStr, title |-> EmptyStr, birthdate |-> EmptyDate],
     [surname |-> EmptyStr, forename |-> EmptyStr, title |-> EmptyStr,
      birthdate |-> MkDate(1975, 1, 1)]}

MkPatient(id, dm, studies) ==
    [id |-> id, surname |-> dm.surname, forename |-> dm.forename, title |-> dm.title,
     birthdate |-> dm.birthdate, studies |-> studies]

Patients == {MkPatient(id, dm, sl) : id \in IdStrings, dm \in Demographics, sl \in StudyLists}

OneStudy == <<[first |-> StudyKey(1), second |-> [series |-> <<[first |-> SeriesKey(2)]>>]]>>

PatientPtrs      == {NULL} \cup Patients
LaterPatientPtrs ==
    {NULL} \cup {MkPatient(<<"Q">>, dm, OneStudy) : dm \in Demographics}

OctRecords ==
    UNION {{[i \in 1..n |-> [first |-> i, second |-> IF i = 1 THEN f ELSE g[i]]]
            : f \in PatientPtrs, g \in [2..n -> LaterPatientPtrs]}
           : n \in 0..MaxPatients}

\* "d/a.raw", ".raw", "d.1/b", "" and "d/"
SourcePaths ==
    {<<"d", "/", "a", ".", "r", "a", "w">>,
     <<".", "r", "a", "w">>,
     <<"d", ".", "1", "/", "b">>,
     EmptyStr,
     <<"d", "/">>}

(***************************************************************************)
(* SpecPure: createFilename and anonymisingOct on a drawn record           *)
(***************************************************************************)
MainIdle ==
    /\ pc = "idle"
    /\ opt = [outputFormat |-> "xoct", addOldFilename |-> FALSE,
              anonymising |-> FALSE, outputPath |-> EmptyStr]
    /\ argv = [octPaths |-> << >>, outputFormatString |-> <<"x", "o", "c", "t">>]
    /\ idx = 1
    /\ fs = << >>
    /\ visited = {}
    /\ atStart = {}
    /\ calls = << >>
    /\ last = << >>
    /\ hist = {}
    /\ exitCode = 0

PInit ==
    /\ pOct \in OctRecords
    /\ pOrig = pOct
    /\ pOnce = pOct
    /\ pApplied = 0
    /\ pSrc \in SourcePaths
    /\ pAdd \in BOOLEAN
    /\ pNamed = FALSE
    /\ pName = EmptyStr
    /\ MainIdle

CallCreateFilename ==
    /\ ~pNamed
    /\ pNamed' = TRUE
    /\ pName' = createFilename(pOct, pSrc, [addOldFilename |-> pAdd])
    /\ UNCHANGED <<pOct, pOrig, pOnce, pApplied, pSrc, pAdd, mvars>>

CallAnonymisingOct ==
    /\ pApplied < MaxApply
    /\ pOct' = anonymisingOct(pOct)
    /\ pApplied' = pApplied + 1
    /\ pOnce' = IF pApplied = 0 THEN pOct' ELSE pOnce
    /\ UNCHANGED <<pOrig, pSrc, pAdd, pNamed, pName, mvars>>

PNext == CallCreateFilename \/ CallAnonymisingOct

SpecPure == PInit /\ [][PNext]_vars
(***************************************************************************)
(* The filesystem and the codec (OctData::OctFileRead), at the interface   *)
(* the program uses.  A file's content is [kind, oct]: "scan" loads as     *)
(* oct; "broken" passes isLoadable but does not load; "junk" does neither. *)
(* openFile returns its OCT by value and the program tests nothing else:   *)
(* a load that fails hands back the empty record.                          *)
(***************************************************************************)
DirD == <<"d">>
DirS == <<"d", "/", "s">>
DirO == <<"o">>
Directories == {DirD, DirS, DirO}

FileA == <<"d", "/", "a", ".", "r", "a", "w">>
FileE == <<"d", "/", "e", ".", "r", "a", "w">>
FileX == <<"d", "/", "P", "4", "2", "_", "3", "_", "7", ".", "x", "o", "c", "t">>

EmptyOct == << >>

\* patient P42, Doe, born 1980-05-17, study 3, series 7
ScanDoe ==
    <<[first |-> 1,
       second |-> MkPatient(P42,
                    [surname |-> Doe, forename |-> John, title |-> Dr,
                     birthdate |-> MkDate(1980, 5, 17)],
                    <<[first |-> 3, second |-> [series |-> <<[first |-> 7]>>]]>>)]>>

Content(kind, oct) == [kind |-> kind, oct |-> oct]

\* bfs::is_directory, bfs::exists
is_directory(p) == p \in Directories

\* a plausible slip: the existence check never answers yes
existsNever(p, files) == FALSE

exists(p, files) == p \in DOMAIN files \/ p \in Directories

\* OctFileRead::isLoadable
isLoadable(p, files) == p \in DOMAIN files /\ files[p].kind \in {"scan", "broken"}

\* OctFileRead::openFile
openFails(p, files) == ~(p \in DOMAIN files /\ files[p].kind = "scan")
openFile(p, files)  == IF openFails(p, files) THEN EmptyOct ELSE files[p].oct

\* OctFileRead::writeFile with outcome wr: "ok" leaves the record at dest and
\* returns true; "failed" and "partial" return false, the latter leaving a
\* file that does not load.  Nothing is written into a missing directory.
WriteOutcomes(dest) ==
    IF BranchPath(dest) = EmptyStr \/ is_directory(BranchPath(dest))
    THEN {"ok", "failed", "partial"}
    ELSE {"failed"}

writeFile(dest, octdata, files, wr) ==
    CASE wr = "ok"      -> (dest :> Content("scan", octdata)) @@ files
      [] wr = "partial" -> (dest :> Content("broken", EmptyOct)) @@ files
      [] OTHER          -> files

\* the entries below root: what a recursive_directory_iterator can yield
IsUnder(root, p) ==
    /\ Len(p) > Len(root) + 1
    /\ SubSeq(p, 1, Len(root)) = root
    /\ p[Len(root) + 1] = "/"

EntriesUnder(root, files) ==
    {p \in DOMAIN files \cup Directories : IsUnder(root, p)}

(***************************************************************************)
(* convertFile                                                             *)
(***************************************************************************)
\* lines 119-126: the destination path
destFileNameOf(filename, octdata, o) ==
    LET name == createFilename(octdata, filename, o)
        path == IF o.outputPath = EmptyStr
                THEN PathAppend(BranchPath(filename), name)
                ELSE PathAppend(o.outputPath, name)
    IN  path \o getExtention(o.outputFormat)

\* a plausible slip: the record is written as loaded, whatever opt.anonymising
recordAsLoaded(octdata, o) == octdata

\* lines 136-137: the record handed to writeFile
recordToWrite(octdata, o) ==
    IF o.anonymising THEN anonymisingOct(octdata) ELSE octdata

\* a plausible slip: the return after the conflict message is missing
convertFileNoReturn(filename, o, files, wr) ==
    LET octdata      == openFile(filename, files)
        destFileName == destFileNameOf(filename, octdata, o)
        existed      == destFileName \in DOMAIN files \/ destFileName \in Directories
        rec          == recordToWrite(octdata, o)
    IN  [files |-> writeFile(destFileName, rec, files, wr),
         call  |-> [filename   |-> filename,
                    readFailed |-> openFails(filename, files),
                    loaded     |-> octdata,
                    dest       |-> destFileName,
                    existed    |-> existed,
                    outcome    |-> IF wr = "ok" THEN "written" ELSE "writeError",
                    written    |-> rec,
                    events     |-> <<"openFile", "createFilename", "exists">>
                                   \o (IF existed THEN <<"cerr: Zieldatei existiert">>
                                       ELSE << >>)
                                   \o <<"cout: Zieldatei", "writeFile">>]]

\* The whole call, with the codec's write outcome wr.  The result holds the
\* filesystem after the call and what the call did: events is the sequence
\* of codec calls, filesystem checks and lines printed, in program order.
convertFile(filename, o, files, wr) ==
    LET octdata      == openFile(filename, files)
        destFileName == destFileNameOf(filename, octdata, o)
        head         == [filename   |-> filename,
                         readFailed |-> openFails(filename, files),
                         loaded     |-> octdata,
                         dest       |-> destFileName,
                         existed    |-> destFileName \in DOMAIN files
                                        \/ destFileName \in Directories]
        start        == <<"openFile", "createFilename", "exists">>
    IN  IF exists(destFileName, files)
        THEN [files |-> files,
              call  |-> head @@ [outcome |-> "conflict", written |-> EmptyOct,
                                 events  |-> start \o <<"cerr: Zieldatei existiert">>]]
        ELSE IF destFileName = EmptyStr
        THEN [files |-> files,
              call  |-> head @@ [outcome |-> "nothing", written |-> EmptyOct,
                                 events  |-> start \o <<"cout: Zieldatei">>]]
        ELSE
        LET rec  == recordToWrite(octdata, o)
            anon == IF o.anonymising THEN <<"anonymisingOct">> ELSE << >>
            done == start \o <<"cout: Zieldatei">> \o anon \o <<"writeFile">>
        IN  [files |-> writeFile(destFileName, rec, files, wr),
             call  |-> head @@
                       [outcome |-> IF wr = "ok" THEN "written" ELSE "writeError",
                        written |-> rec,
                        events  |-> IF wr = "ok" THEN done
                                    ELSE done \o <<"cerr: write file not successful">>]]

\* the write outcomes a call can meet; a call that stops at the existence
\* check meets none, and "failed" stands for it
Outcomes(filename, o, files) ==
    LET dest == destFileNameOf(filename, openFile(filename, files), o)
    IN  IF exists(dest, files) \/ dest = EmptyStr THEN {"failed"}
        ELSE WriteOutcomes(dest)

\* the bookkeeping of one convertFile call in a state transition
DoConvert(filename, wr, prior) ==
    LET r == convertFile(filename, opt, fs, wr)
    IN  /\ fs' = r.files
        /\ last' = r.call @@ [n |-> last.n + 1]
        /\ calls' = IF filename \in DOMAIN prior
                    THEN [prior EXCEPT ![filename] = @ + 1]
                    ELSE (filename :> 1) @@ prior
        /\ hist' = hist \cup (IF r.call.outcome = "conflict" THEN {"conflict"} ELSE {})
                        \cup (IF r.call.outcome = "writeError" THEN {"writeError"} ELSE {})
                        \cup (IF r.call.readFailed THEN {"readError"} ELSE {})

NoCall ==
    [n |-> 0, filename |-> EmptyStr, readFailed |-> FALSE, loaded |-> EmptyOct,
     dest |-> EmptyStr, existed |-> FALSE, outcome |-> "none", written |-> EmptyOct,
     events |-> << >>]

(***************************************************************************)
(* convertFilesFromDir: the loop over a recursive_directory_iterator.  The *)
(* order of the entries is the filesystem's; every entry that was there    *)
(* when the walk began is yielded once, an entry created during the walk   *)
(* may or may not be.                                                      *)
(***************************************************************************)
\* a plausible slip: files that carry the target extension are not left out
IsCandidateAnyExtension(e, o, files) ==
    ~is_directory(e) /\ isLoadable(e, files)

\* lines 152-157: the entry is handed to convertFile
IsCandidate(e, o, files) ==
    /\ ~is_directory(e)
    /\ Extension(e) # getExtention(o.outputFormat)
    /\ isLoadable(e, files)

\* a plausible slip: the loop body runs once (an if for the while)
IteratorAtEndAfterOne == visited # {}

\* dir == end
IteratorAtEnd == atStart \subseteq visited

WalkBegin ==
    /\ pc = "main"
    /\ idx <= Len(argv.octPaths)
    /\ is_directory(argv.octPaths[idx])
    /\ pc' = "walk"
    /\ visited' = {}
    /\ atStart' = EntriesUnder(argv.octPaths[idx], fs)
    /\ calls' = << >>
    /\ UNCHANGED <<opt, argv, idx, fs, last, hist, exitCode, pvars>>

WalkSkip ==
    /\ pc = "walk"
    /\ \E e \in EntriesUnder(argv.octPaths[idx], fs) \ visited :
          /\ ~IsCandidate(e, opt, fs)
          /\ visited' = visited \cup {e}
    /\ UNCHANGED <<pc, opt, argv, idx, fs, atStart, calls, last, hist, exitCode, pvars>>

WalkConvert ==
    /\ pc = "walk"
    /\ \E e \in EntriesUnder(argv.octPaths[idx], fs) \ visited :
          /\ IsCandidate(e, opt, fs)
          /\ visited' = visited \cup {e}
          /\ \E wr \in Outcomes(e, opt, fs) : DoConvert(e, wr, calls)
    /\ UNCHANGED <<pc, opt, argv, idx, atStart, exitCode, pvars>>

WalkEnd ==
    /\ pc = "walk"
    /\ IteratorAtEnd
    /\ pc' = "main"
    /\ idx' = idx + 1
    /\ UNCHANGED <<opt, argv, fs, visited, atStart, calls, last, hist, exitCode, pvars>>

(***************************************************************************)
(* main                                                                    *)
(***************************************************************************)
FormatStrings == OutputFormat \cup {"jpg"}

\* lines 177-223: the command line becomes Options, or main returns
ParseOptions ==
    /\ pc = "start"
    /\ IF argv.help
       THEN /\ pc' = "done" /\ exitCode' = 0 /\ opt' = opt
       ELSE IF Len(argv.octPaths) = 0 \/ argv.outputFormatString \notin OutputFormat
       THEN /\ pc' = "done" /\ exitCode' = 1 /\ opt' = opt
       ELSE /\ pc' = "main"
            /\ exitCode' = exitCode
            /\ opt' = [outputFormat   |-> argv.outputFormatString,
                       addOldFilename |-> argv.addOldFilename,
                       anonymising    |-> argv.anonymising,
                       outputPath     |-> argv.outputPath]
    /\ UNCHANGED <<argv, idx, fs, visited, atStart, calls, last, hist, pvars>>

\* lines 233-239, the else branch: a single file
ConvertSingle ==
    /\ pc = "main"
    /\ idx <= Len(argv.octPaths)
    /\ ~is_directory(argv.octPaths[idx])
    /\ \E wr \in Outcomes(argv.octPaths[idx], opt, fs) :
          DoConvert(argv.octPaths[idx], wr, << >>)
    /\ idx' = idx + 1
    /\ visited' = {}
    /\ atStart' = {}
    /\ UNCHANGED <<pc, opt, argv, exitCode, pvars>>

\* the end of main
MainReturn ==
    /\ pc = "main"
    /\ idx > Len(argv.octPaths)
    /\ pc' = "done"
    /\ exitCode' = 0
    /\ UNCHANGED <<opt, argv, idx, fs, visited, atStart, calls, last, hist, pvars>>

\* the command lines a run starts from: every combination of the options for
\* xoct, the other formats without --addOldFilename, --help on its own
OctPathArgs  == {DirD, FileE}
OctPathLists == UNION {[1..n -> OctPathArgs] : n \in 0..MaxPaths}

CommandLines ==
    [octPaths : OctPathLists, outputFormatString : {"xoct"},
     addOldFilename : BOOLEAN, anonymising : BOOLEAN,
     outputPath : {EmptyStr, DirO}, help : {FALSE}]
    \cup
    [octPaths : OctPathLists, outputFormatString : FormatStrings \ {"xoct"},
     addOldFilename : {FALSE}, anonymising : BOOLEAN,
     outputPath : {EmptyStr, DirO}, help : {FALSE}]
    \cup
    [octPaths : {<< >>, <<FileE>>}, outputFormatString : {"xoct", "jpg"},
     addOldFilename : {FALSE}, anonymising : {FALSE},
     outputPath : {EmptyStr}, help : {TRUE}]

\* the filesystem a run starts from: d/a.raw and d/e.raw pass isLoadable, but
\* d/e.raw does not load; d/P42_3_7.xoct is what an earlier run made of d/a.raw
InitialFiles ==
    (FileA :> Content("scan", ScanDoe)) @@ (FileE :> Content("broken", EmptyOct))
    @@ (FileX :> Content("scan", ScanDoe))

PureIdle ==
    /\ pOct = EmptyOct /\ pOrig = EmptyOct /\ pOnce = EmptyOct
    /\ pApplied = 0 /\ pSrc = EmptyStr /\ pAdd = FALSE
    /\ pNamed = FALSE /\ pName = EmptyStr

Init ==
    /\ pc = "start"
    /\ argv \in CommandLines
    /\ opt = [outputFormat |-> "xoct", addOldFilename |-> FALSE,
              anonymising |-> FALSE, outputPath |-> EmptyStr]
    /\ idx = 1
    /\ fs = InitialFiles
    /\ visited = {}
    /\ atStart = {}
    /\ calls = << >>
    /\ last = NoCall
    /\ hist = {}
    /\ exitCode = -1
    /\ PureIdle

Next ==
    \/ ParseOptions
    \/ WalkBegin
    \/ WalkSkip
    \/ WalkConvert
    \/ WalkEnd
    \/ ConvertSingle
    \/ MainReturn

Spec == Init /\ [][Next]_vars

(***************************************************************************)
(* Claims about createFilename and anonymisingOct (under SpecPure)         *)
(***************************************************************************)
\* decimal forms of the ids in use, written out
DecimalOf(n) ==
    CASE n = -12 -> <<"-", "1", "2">>
      [] n = 7   -> <<"7">>
      [] n = 26  -> <<"2", "6">>
      [] n = 45  -> <<"4", "5">>
      [] n = 3   -> <<"3">>
      [] n = 13  -> <<"1", "3">>
      [] n = 23  -> <<"2", "3">>
      [] n = 33  -> <<"3", "3">>

\* stems of the source paths in use, written out
StemOf(path) ==
    CASE path = <<"d", "/", "a", ".", "r", "a", "w">> -> <<"a">>
      [] path = <<".", "r", "a", "w">>                -> EmptyStr
      [] path = <<"d", ".", "1", "/", "b">>           -> <<"b">>
      [] path = EmptyStr                              -> EmptyStr
      [] path = <<"d", "/">>                          -> <<".">>

\* the first patient is there and has a study
HasStudy(oct) ==
    /\ Len(oct) > 0
    /\ oct[1].second # NULL
    /\ Len(oct[1].second.studies) > 0

\* ... and its first study is there and has a series
HasSeries(oct) ==
    /\ HasStudy(oct)
    /\ oct[1].second.studies[1].second # NULL
    /\ Len(oct[1].second.studies[1].second.series) > 0

ExpectedName(oct, path, add) ==
    LET pat   == oct[1].second
        study == pat.studies[1]
        base  == (IF pat.id = EmptyStr THEN Unknown ELSE pat.id)
                 \o <<"_">> \o DecimalOf(study.first)
                 \o <<"_">> \o DecimalOf(study.second.series[1].first)
    IN  IF add THEN base \o <<"_">> \o StemOf(path) ELSE base

\* C4: for a record whose first patient has a study and whose first study has
\* a series, createFilename returns <patient id or "unknown">_<first study
\* id>_<first series id>, followed by _<stem> exactly when addOldFilename is
\* set; nothing after the first study and the first series enters the result.
C4_NameFromFirstIds ==
    (pNamed /\ HasSeries(pOct)) => pName = ExpectedName(pOct, pSrc, pAdd)

\* "P42_3_-12_a" computed for a record with a second patient, study and series
C4_Witness ==
    /\ pNamed /\ pAdd
    /\ pName = <<"P", "4", "2", "_", "3", "_", "-", "1", "2", "_", "a">>
    /\ Len(pOct) > 1
    /\ Len(pOct[1].second.studies) > 1
    /\ Len(pOct[1].second.studies[1].second.series) > 1

\* C5: for a record with no patients, or whose first patient is null or has
\* no studies, createFilename returns exactly the stem of the source path,
\* whatever addOldFilename is.
C5_StemFallback ==
    (pNamed /\ ~HasStudy(pOct)) => pName = StemOf(pSrc)

\* the stem "a" returned with addOldFilename set for a patient P42 without studies
C5_Witness ==
    /\ pNamed /\ pAdd
    /\ Len(pOct) > 0 /\ pOct[1].second # NULL
    /\ pOct[1].second.id = P42
    /\ Len(pOct[1].second.studies) = 0
    /\ pSrc = <<"d", "/", "a", ".", "r", "a", "w">>
    /\ pName = <<"a">>

\* C6: createFilename always returns a non-empty string.
C6_NameNonEmpty ==
    pNamed => pName # EmptyStr

AnonymisedFrom(before, after) ==
    /\ after.surname = EmptyStr
    /\ after.forename = EmptyStr
    /\ after.title = EmptyStr
    /\ IF before.birthdate.empty
       THEN after.birthdate = before.birthdate
       ELSE /\ ~after.birthdate.empty
            /\ after.birthdate.day = 1
            /\ after.birthdate.month = 1
            /\ after.birthdate.year = before.birthdate.year
    /\ after.id = before.id
    /\ after.studies = before.studies

\* C7: after anonymisingOct every patient has empty surname, forename and
\* title, a non-empty birthdate has day 1, month 1 and its year, an empty
\* birthdate is still empty, the ids and the substructure are unchanged; a
\* further application leaves the record as the first one left it.
C7_AnonymiseIdempotent ==
    pApplied >= 1 =>
        /\ Len(pOct) = Len(pOrig)
        /\ \A i \in 1..Len(pOrig) :
              /\ pOct[i].first = pOrig[i].first
              /\ IF pOrig[i].second = NULL
                 THEN pOct[i].second = NULL
                 ELSE /\ pOct[i].second # NULL
                      /\ AnonymisedFrom(pOrig[i].second, pOct[i].second)
        /\ pOct = pOnce

\* Doe, born 1980-05-17, after two applications: no name, born 1980-01-01
C7_Witness ==
    /\ pApplied >= 2
    /\ \E i \in 1..Len(pOrig) :
          /\ pOrig[i].second # NULL
          /\ pOrig[i].second.surname = Doe
          /\ pOrig[i].second.birthdate = MkDate(1980, 5, 17)
          /\ pOct[i].second.surname = EmptyStr
          /\ pOct[i].second.birthdate = MkDate(1980, 1, 1)
(***************************************************************************)
(* Claims about a run of main (under Spec)                                 *)
(***************************************************************************)
Has(seq, x) == \E i \in 1..Len(seq) : seq[i] = x

EndsWith(p, suffix) ==
    Len(p) >= Len(suffix) /\ SubSeq(p, Len(p) - Len(suffix) + 1, Len(p)) = suffix

\* the extension of each target format, written out
FormatSuffix(f) ==
    CASE f = "xoct"   -> <<".", "x", "o", "c", "t">>
      [] f = "octbin" -> <<".", "o", "c", "t", "b", "i", "n">>
      [] f = "img"    -> <<".", "i", "m", "g">>

\* entry e is a file, not in the target format, that the codec's probe accepts
Eligible(e) ==
    /\ e \notin Directories
    /\ ~EndsWith(e, FormatSuffix(opt.outputFormat))
    /\ e \in DOMAIN fs
    /\ fs[e].kind \in {"scan", "broken"}

CallCount(e) == IF e \in DOMAIN calls THEN calls[e] ELSE 0

\* a convertFile call is made in this step
Called == last'.n # last.n

\* C1: the codec write is never invoked on a destination that exists at the
\* existence check: the call ends with the conflict error and without a
\* write, and no file that is there ever changes or goes away.
C1_NoOverwrite ==
    [][/\ \A p \in DOMAIN fs : p \in DOMAIN fs' /\ fs'[p] = fs[p]
       /\ (Called /\ last'.existed) =>
             /\ last'.outcome = "conflict"
             /\ ~Has(last'.events, "writeFile")
             /\ fs' = fs]_vars

\* d/a.raw met the earlier output d/P42_3_7.xoct, which is as it was
C1_Witness ==
    /\ last.filename = FileA
    /\ last.dest = FileX
    /\ last.existed
    /\ last.outcome = "conflict"
    /\ fs[FileX] = Content("scan", ScanDoe)
    /\ fs[FileA] = Content("scan", ScanDoe)

\* C2: when the codec fails to load the file, the file is skipped and no
\* destination is written for it.
C2_ReadFailureSkips ==
    (last.n > 0 /\ last.readFailed) =>
        /\ ~Has(last.events, "writeFile")
        /\ last.outcome \notin {"written", "writeError"}

ConfigOk ==
    /\ ~argv.help
    /\ Len(argv.octPaths) > 0
    /\ argv.outputFormatString \in {"xoct", "octbin", "img"}

\* C3: conflicts and write failures never end the run: in a walk every entry
\* yielded so far has had exactly one convertFile call if it is eligible and
\* none otherwise, a finished walk has called convertFile once for every
\* eligible entry that was there, a single file has had its one call, and a
\* run with a valid command line ends with every path handled and exit code 0.
C3_ErrorsDoNotAbort ==
    /\ pc = "walk" =>
          /\ \A e \in visited : CallCount(e) = IF Eligible(e) THEN 1 ELSE 0
          /\ DOMAIN calls \subseteq visited
    /\ (pc \in {"main", "done"} /\ idx > 1) =>
          IF is_directory(argv.octPaths[idx - 1])
          THEN /\ atStart \subseteq visited
               /\ \A e \in visited : CallCount(e) = IF Eligible(e) THEN 1 ELSE 0
               /\ DOMAIN calls \subseteq visited
          ELSE calls = (argv.octPaths[idx - 1] :> 1)
    /\ pc = "done" =>
          /\ exitCode = IF argv.help \/ ConfigOk THEN 0 ELSE 1
          /\ ConfigOk => idx = Len(argv.octPaths) + 1

\* a run that met a conflict and a write failure, went on to write a file
\* and returned 0
C3_Witness ==
    /\ pc = "done"
    /\ exitCode = 0
    /\ {"conflict", "writeError"} \subseteq hist
    /\ last.outcome = "written"
    /\ last.n >= 3

\* the step belongs to a second walk over the directory just walked
SecondPass ==
    /\ pc = "walk"
    /\ idx > 1
    /\ argv.octPaths[idx - 1] = argv.octPaths[idx]

C9_WalkFilter ==
    [][pc = "walk" =>
          /\ \A e \in visited' \ visited :
                (Called /\ last'.filename = e) <=> Eligible(e)
          /\ Called => last'.filename \in visited' \ visited]_vars

\* the walk has yielded a file written earlier in the same pass, and the
\* earlier output d/P42_3_7.xoct, and has called convertFile on neither
C9_Witness ==
    /\ pc = "walk"
    /\ opt.outputFormat = "xoct"
    /\ FileX \in visited /\ FileX \notin DOMAIN calls
    /\ \E e \in visited \ atStart :
          /\ e \in DOMAIN fs /\ fs[e].kind = "scan"
          /\ e \notin DOMAIN calls
    /\ FileA \in DOMAIN calls

\* the record of patient Doe after anonymisingOct, written out
ScanDoeAnonymised ==
    <<[first |-> 1,
       second |-> MkPatient(P42,
                    [surname |-> EmptyStr, forename |-> EmptyStr, title |-> EmptyStr,
                     birthdate |-> MkDate(1980, 1, 1)],
                    <<[first |-> 3, second |-> [series |-> <<[first |-> 7]>>]]>>)]>>

AnonymisedOf(rec) == IF rec = ScanDoe THEN ScanDoeAnonymised ELSE rec

ExpectedDest(filename, rec) ==
    PathAppend(IF opt.outputPath = EmptyStr THEN BranchPath(filename) ELSE opt.outputPath,
               createFilename(rec, filename, opt))
    \o FormatSuffix(opt.outputFormat)

Start == <<"openFile", "createFilename", "exists">>

\* C10: a convertFile call loads, derives the name from the record as
\* loaded, checks for the destination, reports it, anonymises if
\* opt.anonymising is set, and writes, in this order; the record written is
\* the anonymised one exactly when opt.anonymising is set and the record as
\* loaded otherwise; on a conflict there is neither anonymisation nor write.
C10_CallOrder ==
    last.n > 0 =>
        /\ last.dest = ExpectedDest(last.filename, last.loaded)
        /\ last.outcome \in {"conflict", "written", "writeError"}
        /\ last.outcome = "conflict" =>
              last.events = Start \o <<"cerr: Zieldatei existiert">>
        /\ last.outcome # "conflict" =>
              /\ last.events =
                    Start \o <<"cout: Zieldatei">>
                    \o (IF opt.anonymising THEN <<"anonymisingOct">> ELSE << >>)
                    \o <<"writeFile">>
                    \o (IF last.outcome = "written" THEN << >>
                        ELSE <<"cerr: write file not successful">>)
              /\ last.written = IF opt.anonymising THEN AnonymisedOf(last.loaded)
                                ELSE last.loaded
        /\ last.outcome = "written" => fs[last.dest] = Content("scan", last.written)

\* the record of patient Doe was written anonymised under a name with P42 in it
C10_Witness ==
    /\ opt.anonymising
    /\ last.outcome = "written"
    /\ last.loaded = ScanDoe
    /\ last.written = ScanDoeAnonymised
    /\ fs[last.dest].oct = ScanDoeAnonymised
    /\ last.dest = <<"o", "/", "P", "4", "2", "_", "3", "_", "7", "_", "a",
                     ".", "x", "o", "c", "t">>
====
